---- MODULE Spec2Model ----
(***************************************************************************)
(* Project Sentinel backend (sentinel_backend.py): the time-bounded cache   *)
(* in front of the Google Trends provider, the threat-score arithmetic and  *)
(* the /api/threat handler that runs fetch-then-score.                      *)
(*                                                                          *)
(* Spec runs requests one after the other against the shared cache; time    *)
(* is counted in minutes.  SpecScore applies calculate_threat_score to      *)
(* series and auxiliary scores drawn from bounded sets.  SpecRace runs      *)
(* get_google_trends on two request threads, statement by statement.        *)
(*                                                                          *)
(* The float arithmetic of the score is modelled with exact fractions       *)
(* [n, d] (d > 0) over the integers.  Where the exact composite is a whole  *)
(* number the float one can fall just below it and int() then yields one    *)
(* less; the sign of the score and the mapping from the integer score to    *)
(* the level do not depend on it.                                           *)
(***************************************************************************)
EXTENDS Integers, Sequences, FiniteSets, TLC

VARIABLES now, trends_cache, fetchLog, last, scoreIn, scoreOut, threads, raceLog

vars == <<now, trends_cache, fetchLog, last, scoreIn, scoreOut, threads, raceLog>>

(***************************************************************************)
(* Bounds of the model.                                                     *)
(***************************************************************************)
\* the clock stops at MaxTime minutes
MaxTime == 20
\* the wall-clock can only be observed every TimeStep minutes
TimeStep == 5
\* short series have 1..MaxShortRows rows
MaxShortRows == 9
\* the scorer is exercised with auxiliary scores up to AuxMargin outside [5, 50]
AuxMargin == 10

(***************************************************************************)
(* Configuration.                                                           *)
(***************************************************************************)
\* python's None
None == [ none |-> TRUE ]

CACHE_DURATION == 10

DISEASE_KEYWORDS ==
  [ flu    |-> [ keywords |-> << "flu symptoms", "fever and cough",
                                 "influenza treatment", "Tamifu" >>,
                 baseline_factor |-> <<12, 10>> ],
    dengue |-> [ keywords |-> << "dengue symptoms", "mosquito bite fever",
                                 "platelet count low", "dengue treatment" >>,
                 baseline_factor |-> <<15, 10>> ],
    covid  |-> [ keywords |-> << "covid symptoms", "loss of smell",
                                 "covid test near me", "Paxlovid" >>,
                 baseline_factor |-> <<13, 10>> ] ]

\* 'today 1-m': the provider answers with one row per day of the last month
MonthRows == 30

Range(s) == { s[i] : i \in DOMAIN s }

(***************************************************************************)
(* Data frames: index (one date <<year, month, day>> per row), the set of   *)
(* columns and one record of counts per row.                                *)
(***************************************************************************)
\* the row whose count in the i-th keyword's column is pat[i], for the
\* keywords whose position is in present
Row(keywords, pat, present) ==
  [ c \in { keywords[i] : i \in present } |->
      pat[CHOOSE i \in present : keywords[i] = c] ]

\* n rows: the first k rows follow pattern patA, the rest pattern patB
Frame(keywords, present, n, k, patA, patB) ==
  [ index   |-> [ i \in 1..n |-> << 2025, 11, i >> ],
    columns |-> { keywords[i] : i \in present },
    rows    |-> [ i \in 1..n |-> IF i <= k THEN Row(keywords, patA, present)
                                           ELSE Row(keywords, patB, present) ] ]

\* trends_df.empty
Empty(df) == Len(df.rows) = 0 \/ df.columns = {}

\* trends_df[:-7] and trends_df[-7:]
DropLast7(df) == [ df EXCEPT !.rows  = SubSeq(df.rows, 1, Len(df.rows) - 7),
                             !.index = SubSeq(df.index, 1, Len(df.index) - 7) ]

Last7(df) ==
  LET n == Len(df.rows)
      f == IF n > 7 THEN n - 6 ELSE 1
  IN  [ df EXCEPT !.rows = SubSeq(df.rows, f, n), !.index = SubSeq(df.index, f, n) ]

(***************************************************************************)
(* Threat score.                                                            *)
(***************************************************************************)
RECURSIVE SumSeq(_)
SumSeq(s) == IF s = << >> THEN 0 ELSE Head(s) + SumSeq(Tail(s))

\* df[keywords] raises KeyError when a keyword is not a column
HasColumns(df, keywords) == Range(keywords) \subseteq df.columns

\* df[keywords].sum(axis=1): the per-row sum over the keyword columns
RowSums(df, keywords) ==
  [ i \in 1..Len(df.rows) |->
      SumSeq([ j \in 1..Len(keywords) |-> df.rows[i][keywords[j]] ]) ]

\* .mean() of the per-row sums, as a fraction
MeanRowSum(df, keywords) ==
  [ n |-> SumSeq(RowSums(df, keywords)), d |-> Len(df.rows) ]

\* baseline_avg with a default of 1
baseline_avg_DefaultOne(df, keywords) ==
  IF Empty(DropLast7(df)) THEN [ n |-> 1, d |-> 1 ]
  ELSE MeanRowSum(DropLast7(df), keywords)

baseline_avg(df, keywords) ==
  IF Empty(DropLast7(df)) THEN [ n |-> 10, d |-> 1 ]
  ELSE MeanRowSum(DropLast7(df), keywords)

current_avg(df, keywords) == MeanRowSum(Last7(df), keywords)

\* trend_score without max(0, ...)
trend_score_Unclamped(df, keywords) ==
  LET b == baseline_avg(df, keywords)
      c == current_avg(df, keywords)
  IN  IF b.n > 0
      THEN [ n |-> (c.n * b.d - b.n * c.d) * 100, d |-> b.n * c.d ]
      ELSE [ n |-> c.n * 2, d |-> c.d ]

\* trend_score that scores a zero baseline as no trend
trend_score_ZeroBaselineIgnored(df, keywords) ==
  LET b == baseline_avg(df, keywords)
      c == current_avg(df, keywords)
  IN  IF b.n > 0
      THEN LET num == (c.n * b.d - b.n * c.d) * 100
               den == b.n * c.d
           IN  IF num > 0 THEN [ n |-> num, d |-> den ] ELSE [ n |-> 0, d |-> 1 ]
      ELSE [ n |-> 0, d |-> 1 ]

\* max(0, ((current_avg - baseline_avg) / baseline_avg) * 100), or
\* current_avg * 2 when the baseline is not positive
trend_score(df, keywords) ==
  LET b == baseline_avg(df, keywords)
      c == current_avg(df, keywords)
  IN  IF b.n > 0
      THEN LET num == (c.n * b.d - b.n * c.d) * 100
               den == b.n * c.d
           IN  IF num > 0 THEN [ n |-> num, d |-> den ] ELSE [ n |-> 0, d |-> 1 ]
      ELSE [ n |-> c.n * 2, d |-> c.d ]

\* composite_score with the two weights exchanged
composite_score_SwappedWeights(trend, social_score) ==
  [ n |-> 3 * trend.n + 7 * social_score * trend.d, d |-> 10 * trend.d ]

\* (trend_score * 0.7) + (social_score * 0.3)
composite_score(trend, social_score) ==
  [ n |-> 7 * trend.n + 3 * social_score * trend.d, d |-> 10 * trend.d ]

\* int that rounds to the nearest integer
int_Rounds(x) ==
  IF x.n >= 0 THEN (2 * x.n + x.d) \div (2 * x.d)
  ELSE 0 - ((2 * (0 - x.n) + x.d) \div (2 * x.d))

\* int(x): truncation toward zero
int(x) == IF x.n >= 0 THEN x.n \div x.d ELSE 0 - ((0 - x.n) \div x.d)

HighAction == "ACTION: High threat detected. Recommend immediate public advisory and resource mobilization to hospitals."
ElevatedAction == "ALERT: Elevated search interest. Recommend alerting clinics and launching a preventative awareness campaign."
GuardedAction == "WATCH: Search interest is above baseline. Monitor data daily and check pharmacy supplies."
LowAction == "INFO: Normal background chatter. No immediate action required."
NoDataAction == "No trend data available for calculation."
ErrorAction == "Error in calculation logic."

\* ThreatLevel with >= for >
ThreatLevelInclusive(score) ==
  IF score >= 80 THEN << "High", HighAction >>
  ELSE IF score >= 50 THEN << "Elevated", ElevatedAction >>
  ELSE IF score >= 25 THEN << "Guarded", GuardedAction >>
  ELSE << "Low", LowAction >>

\* the if/elif chain on the integer score
ThreatLevel(score) ==
  IF score > 80 THEN << "High", HighAction >>
  ELSE IF score > 50 THEN << "Elevated", ElevatedAction >>
  ELSE IF score > 25 THEN << "Guarded", GuardedAction >>
  ELSE << "Low", LowAction >>

\* calculate_threat_score that scores a missing series as a trend of 0
calculate_threat_score_AuxOnNoData(trends_df, social_score, disease_config) ==
  IF trends_df = None \/ Empty(trends_df)
  THEN LET score == int(composite_score([ n |-> 0, d |-> 1 ], social_score))
       IN  << score >> \o ThreatLevel(score)
  ELSE IF ~ HasColumns(trends_df, disease_config.keywords)
  THEN << 0, "Low", ErrorAction >>
  ELSE LET score == int(composite_score(
                          trend_score(trends_df, disease_config.keywords),
                          social_score))
       IN  << score >> \o ThreatLevel(score)

\* calculate_threat_score that sums only the keyword columns the frame has
calculate_threat_score_SkipsMissingColumns(trends_df, social_score, disease_config) ==
  IF trends_df = None \/ Empty(trends_df)
  THEN << 0, "Low", NoDataAction >>
  ELSE LET IsColumn(keyword) == keyword \in trends_df.columns
           score == int(composite_score(
                          trend_score(trends_df,
                                      SelectSeq(disease_config.keywords, IsColumn)),
                          social_score))
       IN  << score >> \o ThreatLevel(score)

calculate_threat_score(trends_df, social_score, disease_config) ==
  IF trends_df = None \/ Empty(trends_df)
  THEN << 0, "Low", NoDataAction >>
  ELSE IF ~ HasColumns(trends_df, disease_config.keywords)
  THEN << 0, "Low", ErrorAction >>
  ELSE LET score == int(composite_score(
                          trend_score(trends_df, disease_config.keywords),
                          social_score))
       IN  << score >> \o ThreatLevel(score)

(***************************************************************************)
(* Google Trends fetch with cache.                                          *)
(***************************************************************************)
RECURSIVE Join(_, _)
Join(strs, sep) ==
  IF strs = << >> THEN ""
  ELSE IF Len(strs) = 1 THEN strs[1]
  ELSE strs[1] \o sep \o Join(Tail(strs), sep)

\* f"{geo}_{'_'.join(disease_config['keywords'])}"
CacheKey(geo, keywords) == geo \o "_" \o Join(keywords, "_")

Digit == << "0", "1", "2", "3", "4", "5", "6", "7", "8", "9" >>

Pad2(n) == Digit[((n \div 10) % 10) + 1] \o Digit[(n % 10) + 1]

\* strftime('%Y-%m-%d')
strftime(date) ==
  Pad2(date[1] \div 100) \o Pad2(date[1] % 100) \o "-" \o Pad2(date[2])
    \o "-" \o Pad2(date[3])

\* SelectKeywords that yields the keywords last to first
RECURSIVE SelectKeywordsReversed(_, _)
SelectKeywordsReversed(keywords, columns) ==
  IF keywords = << >> THEN << >>
  ELSE IF Head(keywords) \in columns
       THEN SelectKeywordsReversed(Tail(keywords), columns) \o << Head(keywords) >>
       ELSE SelectKeywordsReversed(Tail(keywords), columns)

\* the keywords that are columns of the frame, in the order of the keyword list
RECURSIVE SelectKeywords(_, _)
SelectKeywords(keywords, columns) ==
  IF keywords = << >> THEN << >>
  ELSE IF Head(keywords) \in columns
       THEN << Head(keywords) >> \o SelectKeywords(Tail(keywords), columns)
       ELSE SelectKeywords(Tail(keywords), columns)

\* the Chart.js payload: one label per date, one dataset per keyword that is
\* a column of the frame
ChartData(trends_df, keywords) ==
  LET present == SelectKeywords(keywords, trends_df.columns)
  IN  [ labels   |-> [ i \in 1..Len(trends_df.index) |-> strftime(trends_df.index[i]) ],
        datasets |-> [ j \in 1..Len(present) |->
                         [ label |-> present[j],
                           data  |-> [ i \in 1..Len(trends_df.rows) |->
                                         trends_df.rows[i][present[j]] ] ] ] ]

\* Put that updates an existing entry in place and keeps its timestamp
PutKeepsTimestamp(cache, cache_key, entry) ==
  [ k \in DOMAIN cache \cup { cache_key } |->
      IF k # cache_key THEN cache[k]
      ELSE IF cache_key \in DOMAIN cache
           THEN [ entry EXCEPT !.timestamp = cache[cache_key].timestamp ]
           ELSE entry ]

\* trends_cache[cache_key] = entry
Put(cache, cache_key, entry) ==
  [ k \in DOMAIN cache \cup { cache_key } |->
      IF k = cache_key THEN entry ELSE cache[k] ]

\* the provider call raised
Raise == [ raise |-> TRUE ]

\* Fresh with the comparison turned round
FreshInverted(cache, cache_key, t) ==
  /\ cache_key \in DOMAIN cache
  /\ t - cache[cache_key].timestamp > CACHE_DURATION

\* Fresh with <= for <
FreshInclusive(cache, cache_key, t) ==
  /\ cache_key \in DOMAIN cache
  /\ t - cache[cache_key].timestamp <= CACHE_DURATION

\* Fresh without the expiry test
FreshForever(cache, cache_key, t) == cache_key \in DOMAIN cache

\* the cache check: an entry exists and is younger than CACHE_DURATION
Fresh(cache, cache_key, t) ==
  /\ cache_key \in DOMAIN cache
  /\ t - cache[cache_key].timestamp < CACHE_DURATION

\* ServeCached that drops the entry it serves
ServeCachedEvicts(cache, cache_key) ==
  [ cache |-> [ k \in DOMAIN cache \ { cache_key } |-> cache[k] ],
    data |-> cache[cache_key].data,
    chart_data |-> cache[cache_key].chart_data, calls |-> 0, path |-> "hit" ]

\* the cache hit: the stored pair is returned, no provider call
ServeCached(cache, cache_key) ==
  [ cache |-> cache, data |-> cache[cache_key].data,
    chart_data |-> cache[cache_key].chart_data, calls |-> 0, path |-> "hit" ]

\* AbsorbError that drops the key's entry
AbsorbErrorEvicts(cache, cache_key) ==
  [ cache |-> [ k \in DOMAIN cache \ { cache_key } |-> cache[k] ],
    data |-> None, chart_data |-> None, calls |-> 1, path |-> "error" ]

\* AbsorbError that falls back on the expired entry
AbsorbErrorServesStale(cache, cache_key) ==
  [ cache |-> cache,
    data |-> IF cache_key \in DOMAIN cache THEN cache[cache_key].data ELSE None,
    chart_data |-> IF cache_key \in DOMAIN cache THEN cache[cache_key].chart_data
                   ELSE None,
    calls |-> 1, path |-> "error" ]

\* AbsorbError after a second provider call
AbsorbErrorRetries(cache, cache_key) ==
  [ cache |-> cache, data |-> None, chart_data |-> None,
    calls |-> 2, path |-> "error" ]

\* the except branch: nothing is stored, (None, None) is returned
AbsorbError(cache, cache_key) ==
  [ cache |-> cache, data |-> None, chart_data |-> None,
    calls |-> 1, path |-> "error" ]

\* StoreNoData that returns without storing
StoreNoDataUncached(cache, cache_key, t_store) ==
  [ cache |-> cache, data |-> None, chart_data |-> None,
    calls |-> 1, path |-> "empty" ]

\* StoreNoData with an empty chart in place of None
StoreNoDataEmptyChart(cache, cache_key, t_store) ==
  [ cache |-> Put(cache, cache_key,
                  [ timestamp |-> t_store, data |-> None,
                    chart_data |-> [ labels |-> << >>, datasets |-> << >> ] ]),
    data |-> None, chart_data |-> [ labels |-> << >>, datasets |-> << >> ],
    calls |-> 1, path |-> "empty" ]

\* the provider returned an empty frame: the "no data" result is cached
StoreNoData(cache, cache_key, t_store) ==
  [ cache |-> Put(cache, cache_key,
                  [ timestamp |-> t_store, data |-> None, chart_data |-> None ]),
    data |-> None, chart_data |-> None, calls |-> 1, path |-> "empty" ]

\* the provider returned data: frame and chart payload are cached and returned
StoreData(cache, cache_key, t_store, trends_df, chart_data) ==
  [ cache |-> Put(cache, cache_key,
                  [ timestamp |-> t_store, data |-> trends_df,
                    chart_data |-> chart_data ]),
    data |-> trends_df, chart_data |-> chart_data, calls |-> 1, path |-> "data" ]

\* get_google_trends(disease_config, geo) run on the cache `cache`: the cache
\* is checked at time t_check; provider is what the provider call does (Raise
\* or the frame it returns) and t_store the time at which the result is
\* stored.  Yields the new cache, the returned pair, the number of provider
\* calls and the path taken.
get_google_trends(cache, disease_config, geo, t_check, provider, t_store) ==
  LET cache_key == CacheKey(geo, disease_config.keywords)
  IN  IF Fresh(cache, cache_key, t_check) THEN ServeCached(cache, cache_key)
      ELSE IF provider = Raise THEN AbsorbError(cache, cache_key)
      ELSE IF Empty(provider) THEN StoreNoData(cache, cache_key, t_store)
      ELSE StoreData(cache, cache_key, t_store, provider,
                     ChartData(provider, disease_config.keywords))

\* random.randint(5, 50)
get_social_chatter == 5..50

(***************************************************************************)
(* The /api/threat handler.                                                 *)
(***************************************************************************)
\* the request parameters the model sends
Diseases == { "dengue", "zika" }
Cities == { "kanpur" }
Geos == { "IN-UP" }

\* str.capitalize() on the parameters above
capitalize(str) ==
  CASE str = "flu" -> "Flu"
    [] str = "dengue" -> "Dengue"
    [] str = "covid" -> "Covid"
    [] str = "zika" -> "Zika"
    [] str = "kanpur" -> "Kanpur"
    [] OTHER -> str

\* count patterns of a row, one count per keyword
P0 == << 0, 0, 0, 0 >>
P30 == << 10, 10, 10, 0 >>
P40 == << 10, 10, 10, 10 >>
P100 == << 25, 25, 25, 25 >>
P125 == << 25, 25, 25, 50 >>
P150 == << 50, 50, 25, 25 >>
P200 == << 50, 50, 50, 50 >>

\* what the provider call can do for a keyword list: raise, return an empty
\* frame, or return a frame (flat, rising, or lacking a keyword's column)
ProviderOutcomes(keywords) ==
  { Raise,
    Frame(keywords, 1..4, 0, 0, P0, P0),
    Frame(keywords, 1..4, 8, 1, P100, P100),
    Frame(keywords, 1..4, 8, 1, P40, P100),
    Frame(keywords, { 1, 2, 4 }, 8, 1, P40, P100) }

\* the values of get_social_chatter the handler is run with
SocialSamples == { 5, 27, 50 }

\* minutes the provider call takes
Latencies == { 0, TimeStep }

NoRequest ==
  [ disease |-> "", city |-> "", geo |-> "", status |-> 0, body |-> None,
    key |-> "", start |-> 0, end |-> 0, cacheBefore |-> << >>, prev |-> None,
    path |-> "init", calls |-> 0, data |-> None, chart_data |-> None,
    social |-> 0 ]

\* what fetchLog keeps of a fetch
FetchRecord(start, f) ==
  [ start |-> start, calls |-> f.calls, path |-> f.path, data |-> f.data,
    chart_data |-> f.chart_data ]

\* fetchLog[key].any is the most recent fetch for the key, .stored the most
\* recent one whose provider call returned (and so wrote the cache entry)
Logged(log, key, start, f) ==
  LET rec == FetchRecord(start, f)
      old == IF key \in DOMAIN log THEN log[key].stored ELSE None
  IN  Put(log, key, [ any |-> rec,
                      stored |-> IF f.path \in { "data", "empty" } THEN rec ELSE old ])

\* jsonify({"error": "Disease not configured"}), 400
error_response == [ error |-> "Disease not configured" ]

\* response_data without the chart
response_data_NoChart(city, disease, geo, r, chart_data) ==
  [ city |-> capitalize(city), disease |-> capitalize(disease), geo |-> geo,
    threat_score |-> r[1], threat_level |-> r[2], action_item |-> r[3] ]

\* the JSON object of a 200 response; r is (score, level, action)
response_data(city, disease, geo, r, chart_data) ==
  [ city |-> capitalize(city), disease |-> capitalize(disease), geo |-> geo,
    threat_score |-> r[1], threat_level |-> r[2], action_item |-> r[3],
    chart_data |-> chart_data ]

get_threat_analysis(disease, city, geo) ==
  IF disease \notin DOMAIN DISEASE_KEYWORDS
  THEN /\ last' = [ NoRequest EXCEPT !.disease = disease, !.city = city,
                                     !.geo = geo, !.status = 400,
                                     !.body = error_response,
                                     !.start = now, !.end = now,
                                     !.cacheBefore = trends_cache,
                                     !.path = "rejected" ]
       /\ UNCHANGED << now, trends_cache, fetchLog, scoreIn, scoreOut,
                      threads, raceLog >>
  ELSE \E provider \in ProviderOutcomes(DISEASE_KEYWORDS[disease].keywords),
          latency \in Latencies,
          social_score \in get_social_chatter \cap SocialSamples :
         LET disease_config == DISEASE_KEYWORDS[disease]
             key == CacheKey(geo, disease_config.keywords)
             f == get_google_trends(trends_cache, disease_config, geo, now,
                                    provider, now + latency)
             r == calculate_threat_score(f.data, social_score, disease_config)
         IN  /\ now + latency <= MaxTime
             /\ now' = IF f.calls = 0 THEN now ELSE now + latency
             /\ trends_cache' = f.cache
             /\ fetchLog' = Logged(fetchLog, key, now, f)
             /\ last' = [ disease |-> disease, city |-> city, geo |-> geo,
                          status |-> 200,
                          body |-> response_data(city, disease, geo, r,
                                                 f.chart_data),
                          key |-> key, start |-> now,
                          end |-> IF f.calls = 0 THEN now ELSE now + latency,
                          cacheBefore |-> trends_cache,
                          prev |-> IF key \in DOMAIN fetchLog THEN fetchLog[key]
                                   ELSE None,
                          path |-> f.path, calls |-> f.calls, data |-> f.data,
                          chart_data |-> f.chart_data, social |-> social_score ]
             /\ UNCHANGED << scoreIn, scoreOut, threads, raceLog >>

\* time passes between requests
Tick ==
  /\ now + TimeStep <= MaxTime
  /\ now' = now + TimeStep
  /\ UNCHANGED << trends_cache, fetchLog, last, scoreIn, scoreOut,
                  threads, raceLog >>

\* the request threads of the server
Threads == { 1, 2 }

\* a thread that has not run get_google_trends yet
IdleThread ==
  [ pc |-> "idle", miss |-> FALSE, calls |-> 0, provider |-> None,
    entry |-> None, stored |-> FALSE, data |-> None, chart_data |-> None ]

\* no fetch has stored yet
NoRace == [ overlap |-> FALSE, lastStore |-> 0 ]

Init ==
  /\ now = 0
  /\ trends_cache = << >>
  /\ fetchLog = << >>
  /\ last = NoRequest
  /\ scoreIn = None
  /\ scoreOut = None
  /\ threads = [ t \in Threads |-> IdleThread ]
  /\ raceLog = NoRace

Next ==
  \/ \E disease \in Diseases, city \in Cities, geo \in Geos :
       get_threat_analysis(disease, city, geo)
  \/ Tick

Spec == Init /\ [][Next]_vars

(***************************************************************************)
(* The scorer alone, on series and auxiliary scores of every shape.         *)
(***************************************************************************)
ScoreDiseases == { "flu", "dengue" }

ScorePatterns == { P0, P30, P40, P100, P125, P150, P200 }

ScoreLens == (1..MaxShortRows) \cup { MonthRows }

\* where the rows of a series of n rows switch from one pattern to the other
Splits(n) == { 0, n \div 2 } \cup (IF n > 7 THEN { n - 7 } ELSE {})

ScoreFrames(keywords) ==
  { None, Frame(keywords, 1..4, 0, 0, P0, P0) }
    \cup { Frame(keywords, 1..4, n[1], n[2], patA, patB) :
             n \in UNION { { << l, k >> : k \in Splits(l) } : l \in ScoreLens },
             patA \in ScorePatterns, patB \in ScorePatterns }
    \cup { Frame(keywords, { 1, 2, 4 }, l, 0, P0, patB) :
             l \in ScoreLens, patB \in ScorePatterns }

AuxScores == (5 - AuxMargin)..(50 + AuxMargin)

Score ==
  /\ scoreIn # None
  /\ scoreOut = None
  /\ LET r == calculate_threat_score(scoreIn.trends_df, scoreIn.social_score,
                                     DISEASE_KEYWORDS[scoreIn.disease])
     IN  scoreOut' = [ score |-> r[1], level |-> r[2], action |-> r[3] ]
  /\ UNCHANGED << now, trends_cache, fetchLog, last, scoreIn, threads, raceLog >>

InitScore ==
  /\ now = 0
  /\ trends_cache = << >>
  /\ fetchLog = << >>
  /\ last = NoRequest
  /\ scoreOut = None
  /\ threads = [ t \in Threads |-> IdleThread ]
  /\ raceLog = NoRace
  /\ \E disease \in ScoreDiseases :
       scoreIn \in [ trends_df : ScoreFrames(DISEASE_KEYWORDS[disease].keywords),
                     social_score : AuxScores, disease : { disease } ]

NextScore == Score

SpecScore == InitScore /\ [][NextScore]_vars

(***************************************************************************)
(* get_google_trends on two threads (specification SpecRace).  Both threads *)
(* fetch the same key; a thread runs the cache check, the provider call,    *)
(* the construction of the entry and the assignment to trends_cache as      *)
(* separate steps, and the other thread and the clock may move in between.  *)
(***************************************************************************)
RaceKeywords == DISEASE_KEYWORDS["dengue"].keywords
RaceKey == CacheKey("IN-UP", RaceKeywords)

\* what the provider call can do in SpecRace
RaceOutcomes ==
  { Raise,
    Frame(RaceKeywords, 1..4, 0, 0, P0, P0),
    Frame(RaceKeywords, 1..4, 8, 1, P100, P100),
    Frame(RaceKeywords, 1..4, 8, 1, P40, P100) }

\* the thread is between its cache check and its return
InFlight(t) == threads[t].pc \in { "calling", "building", "storing" }

Other(t) == CHOOSE u \in Threads : u # t

\* lines 43-56: a thread starts a fetch with the cache check; a hit returns
fetch_check(t) ==
  /\ threads[t].pc \in { "idle", "done" }
  /\ IF Fresh(trends_cache, RaceKey, now)
     THEN LET f == ServeCached(trends_cache, RaceKey)
          IN  threads' = [ threads EXCEPT ![t] =
                [ IdleThread EXCEPT !.pc = "done", !.data = f.data,
                                    !.chart_data = f.chart_data ] ]
     ELSE threads' = [ threads EXCEPT ![t] =
                [ IdleThread EXCEPT !.pc = "calling", !.miss = TRUE ] ]
  /\ raceLog' = [ raceLog EXCEPT !.overlap = InFlight(Other(t)) ]
  /\ UNCHANGED << now, trends_cache, fetchLog, last, scoreIn, scoreOut >>

\* lines 58-75 and 113-116: the provider call returns a frame or raises
fetch_call(t) ==
  /\ threads[t].pc = "calling"
  /\ \E provider \in RaceOutcomes :
       threads' = [ threads EXCEPT ![t] =
         IF provider = Raise
         THEN [ @ EXCEPT !.pc = "done", !.provider = Raise,
                         !.calls = @ + 1 ]
         ELSE [ @ EXCEPT !.pc = "building", !.provider = provider,
                         !.calls = @ + 1 ] ]
  /\ UNCHANGED << now, trends_cache, fetchLog, last, scoreIn, scoreOut, raceLog >>

\* lines 77-84 and 88-109: the entry is built, its timestamp read from the clock
fetch_build(t) ==
  /\ threads[t].pc = "building"
  /\ LET df == threads[t].provider
         entry == IF Empty(df)
                  THEN [ timestamp |-> now, data |-> None, chart_data |-> None ]
                  ELSE [ timestamp |-> now, data |-> df,
                         chart_data |-> ChartData(df, RaceKeywords) ]
     IN  threads' = [ threads EXCEPT ![t] = [ @ EXCEPT !.pc = "storing",
                                                       !.entry = entry ] ]
  /\ UNCHANGED << now, trends_cache, fetchLog, last, scoreIn, scoreOut, raceLog >>

\* lines 80/85 and 105/111: the assignment to trends_cache, then the return
fetch_store(t) ==
  /\ threads[t].pc = "storing"
  /\ trends_cache' = Put(trends_cache, RaceKey, threads[t].entry)
  /\ threads' = [ threads EXCEPT ![t] =
                    [ @ EXCEPT !.pc = "done", !.stored = TRUE,
                               !.data = threads[t].entry.data,
                               !.chart_data = threads[t].entry.chart_data ] ]
  /\ raceLog' = [ raceLog EXCEPT !.lastStore = t ]
  /\ UNCHANGED << now, fetchLog, last, scoreIn, scoreOut >>

NextRace ==
  \/ \E t \in Threads : fetch_check(t)
  \/ \E t \in Threads : fetch_call(t)
  \/ \E t \in Threads : fetch_build(t)
  \/ \E t \in Threads : fetch_store(t)
  \/ Tick

SpecRace == Init /\ [][NextRace]_vars

(***************************************************************************)
(* Properties of the cache (specification Spec).                            *)
(***************************************************************************)
\* the last request ran the fetch
Fetched == last.status = 200

\* the entry the last fetch found under its key
HadEntry == last.key \in DOMAIN last.cacheBefore
EntryBefore == last.cacheBefore[last.key]
EntryAge == last.start - EntryBefore.timestamp

\* C1 as stated: of two fetches for the same key less than the TTL apart,
\* at most one calls the provider and the second returns what the first
\* returned.
C1_TwoFetchesWithinTTL ==
  ( /\ Fetched
    /\ last.prev # None
    /\ last.start - last.prev.any.start < CACHE_DURATION )
  => /\ last.prev.any.calls + last.calls <= 1
     /\ last.data = last.prev.any.data
     /\ last.chart_data = last.prev.any.chart_data

\* C1 amended: when the first of the two fetches is a live fetch whose
\* provider call returned (data or an empty result) and the second starts
\* less than the TTL after the first started, the second issues no provider
\* call and returns exactly the series and chart payload the first returned.
C1_SecondFetchServedFromCache ==
  ( /\ Fetched
    /\ last.prev # None
    /\ last.prev.stored # None
    /\ last.start - last.prev.stored.start < CACHE_DURATION )
  => /\ last.prev.stored.calls = 1
     /\ last.calls = 0
     /\ last.data = last.prev.stored.data
     /\ last.chart_data = last.prev.stored.chart_data

C1_Witness ==
  /\ Fetched
  /\ last.prev # None
  /\ last.prev.stored # None
  /\ last.prev.stored.path = "data"
  /\ last.start > last.prev.stored.start
  /\ last.start - last.prev.stored.start < CACHE_DURATION
  /\ last.calls = 0
  /\ last.data # None

\* C2: a fetch serves the stored entry without a provider call iff the entry
\* exists and now - entry.timestamp < TTL, and then returns the stored pair
\* verbatim; otherwise (no entry, or age >= TTL) it calls the provider.
C2_EntryHonoredIffYoungerThanTTL ==
  Fetched =>
    /\ last.calls = 0 <=> (HadEntry /\ EntryAge < CACHE_DURATION)
    /\ last.calls = 0 => /\ last.data = EntryBefore.data
                         /\ last.chart_data = EntryBefore.chart_data
    /\ (~ HadEntry \/ EntryAge >= CACHE_DURATION) => last.calls = 1

C2_Witness ==
  /\ Fetched
  /\ HadEntry
  /\ EntryAge = CACHE_DURATION
  /\ last.calls = 1

\* C3: a fetch that finds an entry older than the TTL makes exactly one
\* provider call, whether the entry holds data or None, and does not take
\* the cache-hit path.
C3_StaleEntryRefetched ==
  (Fetched /\ HadEntry /\ EntryAge > CACHE_DURATION)
  => /\ last.calls = 1
     /\ last.path \in { "data", "empty", "error" }

C3_Witness ==
  /\ Fetched
  /\ HadEntry
  /\ EntryAge > CACHE_DURATION
  /\ EntryBefore.data # None
  /\ last.path = "empty"
  /\ last.data = None

\* C4: when the provider call raises, the cache is exactly what it was
\* before the fetch and the fetch returns (None, None).
C4_ErrorLeavesCacheUnchanged ==
  last.path = "error"
  => /\ trends_cache = last.cacheBefore
     /\ last.data = None
     /\ last.chart_data = None

C4_Witness ==
  /\ last.path = "error"
  /\ HadEntry
  /\ EntryBefore.data # None
  /\ last.data = None

\* C5: an empty provider result is stored as {timestamp = now, None, None}
\* and (None, None) is returned; a later fetch less than the TTL after that
\* timestamp returns (None, None) without calling the provider.
C5_NoDataIsCached ==
  /\ last.path = "empty"
     => /\ last.key \in DOMAIN trends_cache
        /\ trends_cache[last.key] =
              [ timestamp |-> last.end, data |-> None, chart_data |-> None ]
        /\ last.data = None
        /\ last.chart_data = None
  /\ ( /\ Fetched
       /\ last.prev # None
       /\ last.prev.stored # None
       /\ last.prev.stored.path = "empty"
       /\ HadEntry => EntryAge < CACHE_DURATION )
     => /\ last.calls = 0
        /\ last.data = None
        /\ last.chart_data = None

C5_Witness ==
  /\ Fetched
  /\ last.prev # None
  /\ last.prev.stored # None
  /\ last.prev.stored.path = "empty"
  /\ last.start > last.prev.stored.start
  /\ last.path = "hit"
  /\ last.data = None

\* C10: a request for a configured disease answers 200 with a level among
\* Low, Guarded, Elevated, High, and with score 0 and level Low when the
\* provider raised or returned nothing; only an unknown disease answers 400.
C10_OnlyUnknownDiseaseFails ==
  last.path # "init"
  => /\ last.disease \in DOMAIN DISEASE_KEYWORDS
          => /\ last.status = 200
             /\ last.body.threat_level \in { "Low", "Guarded", "Elevated", "High" }
             /\ last.path \in { "error", "empty" }
                  => /\ last.body.threat_score = 0
                     /\ last.body.threat_level = "Low"
     /\ last.status # 200 <=> last.disease \notin DOMAIN DISEASE_KEYWORDS

C10_Witness ==
  /\ last.path = "error"
  /\ last.status = 200
  /\ HadEntry
  /\ EntryBefore.data # None
  /\ last.body.threat_score = 0
  /\ last.body.threat_level = "Low"

\* C11: an unknown disease id answers 400 with {"error": "Disease not
\* configured"}, calls no provider and leaves the cache as it was; a
\* configured id answers with an object of exactly the fields city, disease,
\* geo, threat_score, threat_level, action_item and chart_data.
C11_ConfigErrorOrFullResult ==
  last.path # "init"
  => /\ last.disease \notin DOMAIN DISEASE_KEYWORDS
          => /\ last.status = 400
             /\ last.body = [ error |-> "Disease not configured" ]
             /\ last.calls = 0
             /\ trends_cache = last.cacheBefore
     /\ last.disease \in DOMAIN DISEASE_KEYWORDS
          => /\ last.status = 200
             /\ DOMAIN last.body = { "city", "disease", "geo", "threat_score",
                                     "threat_level", "action_item", "chart_data" }
             /\ last.body.geo = last.geo

C11_Witness ==
  /\ last.disease = "zika"
  /\ last.status = 400
  /\ last.cacheBefore # << >>
  /\ trends_cache = last.cacheBefore

\* position of a keyword in the configured keyword list
C12_Position(keyword) ==
  CHOOSE i \in DOMAIN DISEASE_KEYWORDS[last.disease].keywords :
    DISEASE_KEYWORDS[last.disease].keywords[i] = keyword

\* C12: on a successful fetch the datasets of the chart payload are labelled
\* with exactly the configured keywords that are columns of the returned
\* frame, one dataset each, in the configured order, and every dataset has
\* one value per date label.
C12_ChartDatasetsFollowKeywords ==
  last.path = "data"
  => LET datasets == last.chart_data.datasets
         keywords == DISEASE_KEYWORDS[last.disease].keywords
     IN  /\ { datasets[j].label : j \in DOMAIN datasets }
               = Range(keywords) \cap last.data.columns
         /\ Len(datasets) = Cardinality(Range(keywords) \cap last.data.columns)
         /\ \A i, j \in DOMAIN datasets :
               i < j => C12_Position(datasets[i].label) < C12_Position(datasets[j].label)
         /\ Len(last.chart_data.labels) = Len(last.data.rows)
         /\ \A j \in DOMAIN datasets :
               Len(datasets[j].data) = Len(last.chart_data.labels)

\* the provider's frame lacks the third keyword's column
C12_Witness ==
  /\ last.path = "data"
  /\ Len(last.chart_data.datasets) = 3
  /\ last.chart_data.datasets[3].label = DISEASE_KEYWORDS[last.disease].keywords[4]
  /\ Len(last.chart_data.labels) = 8

\* C15: a fetch issues at most one provider call; the fetch that follows a
\* fetch whose provider call raised (requests do not overlap in Spec) finds
\* the key missing or stale, the error having left no trace in the cache,
\* and calls the provider again.
C15_NoRetryInsideAFetch ==
  /\ last.calls \in { 0, 1 }
  /\ (Fetched /\ last.prev # None /\ last.prev.any.path = "error")
     => /\ HadEntry => EntryBefore.timestamp <= last.prev.any.start - CACHE_DURATION
        /\ (~ HadEntry \/ EntryAge >= CACHE_DURATION) => last.calls = 1
        /\ last.calls = 1

C15_Witness ==
  /\ Fetched
  /\ last.prev # None
  /\ last.prev.any.path = "error"
  /\ last.start = last.prev.any.start
  /\ last.path = "data"

\* C18: no fetch removes a cache entry; a live fetch that ends in data or in
\* an empty result writes the entry of its key with timestamp = now and
\* leaves the other entries alone; a cache hit, a provider error and a
\* rejected request leave the whole cache, timestamps included, unchanged.
C18_EntriesOnlyWrittenByLiveFetches ==
  /\ DOMAIN last.cacheBefore \subseteq DOMAIN trends_cache
  /\ last.path \in { "data", "empty" }
     => /\ DOMAIN trends_cache = DOMAIN last.cacheBefore \cup { last.key }
        /\ trends_cache[last.key] =
             [ timestamp |-> last.end, data |-> last.data,
               chart_data |-> last.chart_data ]
        /\ \A k \in DOMAIN last.cacheBefore \ { last.key } :
             trends_cache[k] = last.cacheBefore[k]
  /\ last.path \notin { "data", "empty" } => trends_cache = last.cacheBefore

\* an entry holding data is overwritten by the "no data" result
C18_Witness ==
  /\ last.path = "empty"
  /\ HadEntry
  /\ EntryBefore.data # None
  /\ trends_cache[last.key].data = None
  /\ trends_cache[last.key].timestamp > EntryBefore.timestamp

\* C19: the fetch returns a series and a chart payload together or neither,
\* live or from the cache, and so does every cache entry; chart_data of the
\* response is null exactly when there is no series, and then the score is 0
\* and the level Low whatever the social score.
C19_ChartNullIffNoSeries ==
  /\ \A k \in DOMAIN trends_cache :
       trends_cache[k].data = None <=> trends_cache[k].chart_data = None
  /\ Fetched
     => /\ last.data = None <=> last.chart_data = None
        /\ last.body.chart_data = None <=> last.data = None
        /\ last.body.chart_data = last.chart_data
        /\ last.body.chart_data = None
             => /\ last.body.threat_score = 0
                /\ last.body.threat_level = "Low"

C19_Witness ==
  /\ Fetched
  /\ last.path = "hit"
  /\ last.body.chart_data = None
  /\ last.social = 50
  /\ last.body.threat_score = 0

(***************************************************************************)
(* Properties of the scorer (specification SpecScore).                      *)
(***************************************************************************)
Scored == scoreOut # None

ScoreKeywords == DISEASE_KEYWORDS[scoreIn.disease].keywords

\* the input of C6: 30 rows, the first 23 with per-row keyword sums of
\* average 100, the last 7 of average 150, auxiliary score 20
C6_Input ==
  /\ scoreIn.trends_df # None
  /\ Len(scoreIn.trends_df.rows) = 30
  /\ Range(ScoreKeywords) \subseteq scoreIn.trends_df.columns
  /\ LET sums == RowSums(scoreIn.trends_df, ScoreKeywords)
     IN  /\ SumSeq(SubSeq(sums, 1, 23)) = 23 * 100
         /\ SumSeq(SubSeq(sums, 24, 30)) = 7 * 150
  /\ scoreIn.social_score = 20

\* C6 as stated: the result on that input is (41, "Elevated", Elevated action).
C6_Returns41Elevated ==
  (Scored /\ C6_Input)
  => scoreOut = [ score |-> 41, level |-> "Elevated", action |-> ElevatedAction ]

\* C6 amended: on that input trendScore = 50, composite = 41 and the result
\* is (41, "Guarded", Guarded action), 41 being above 25 and not above 50.
C6_Returns41Guarded ==
  (Scored /\ C6_Input)
  => /\ LET t == trend_score(scoreIn.trends_df, ScoreKeywords)
        IN  t.n = 50 * t.d
     /\ scoreOut = [ score |-> 41, level |-> "Guarded", action |-> GuardedAction ]

C6_Witness == Scored /\ C6_Input /\ scoreOut.score = 41

\* C7 as stated: the returned score is non-negative for every series and
\* every auxiliary score.
C7_ScoreNonNegative == Scored => scoreOut.score >= 0

\* C7 amended: the trend component is never negative, and the returned score
\* is non-negative for every series and every auxiliary score >= 0.
C7_ScoreNonNegativeForNonNegativeAux ==
  Scored
  => /\ ( /\ scoreIn.trends_df # None
          /\ ~ Empty(scoreIn.trends_df)
          /\ HasColumns(scoreIn.trends_df, ScoreKeywords) )
        => trend_score(scoreIn.trends_df, ScoreKeywords).n >= 0
     /\ scoreIn.social_score >= 0 => scoreOut.score >= 0

\* a falling series: the clamp is what keeps the score at int(0.3 * aux)
C7_Witness ==
  /\ Scored
  /\ scoreIn.trends_df # None
  /\ Len(scoreIn.trends_df.rows) = MonthRows
  /\ Range(ScoreKeywords) \subseteq scoreIn.trends_df.columns
  /\ baseline_avg(scoreIn.trends_df, ScoreKeywords).n > 0
  /\ current_avg(scoreIn.trends_df, ScoreKeywords).n = 0
  /\ scoreIn.social_score = 5
  /\ scoreOut.score = 1

\* C8: the level is High iff score > 80, Elevated iff 50 < score <= 80,
\* Guarded iff 25 < score <= 50, Low iff score <= 25, and a computed score
\* comes with the action string of its level.
C8_LevelThresholds ==
  Scored
  => /\ scoreOut.level = "High" <=> scoreOut.score > 80
     /\ scoreOut.level = "Elevated" <=> (50 < scoreOut.score /\ scoreOut.score <= 80)
     /\ scoreOut.level = "Guarded" <=> (25 < scoreOut.score /\ scoreOut.score <= 50)
     /\ scoreOut.level = "Low" <=> scoreOut.score <= 25
     /\ scoreOut.action \notin { NoDataAction, ErrorAction }
          => scoreOut.action =
               CASE scoreOut.level = "High" -> HighAction
                 [] scoreOut.level = "Elevated" -> ElevatedAction
                 [] scoreOut.level = "Guarded" -> GuardedAction
                 [] OTHER -> LowAction

C8_Witness ==
  /\ Scored
  /\ scoreOut.score = 80
  /\ scoreOut.level = "Elevated"
  /\ scoreOut.action = ElevatedAction

\* C9: a series that is None or empty is scored (0, "Low", "No trend data
\* available for calculation.") whatever the auxiliary score and the config.
C9_NoSeriesScoresZero ==
  ( /\ Scored
    /\ \/ scoreIn.trends_df = None
       \/ Len(scoreIn.trends_df.rows) = 0 )
  => scoreOut = [ score |-> 0, level |-> "Low", action |-> NoDataAction ]

C9_Witness ==
  /\ Scored
  /\ scoreIn.trends_df = None
  /\ scoreIn.social_score = 50
  /\ scoreOut.score = 0

\* the series is a frame with rows and with a column for every keyword
ScoreFrameOk ==
  /\ scoreIn.trends_df # None
  /\ Len(scoreIn.trends_df.rows) > 0
  /\ Range(ScoreKeywords) \subseteq scoreIn.trends_df.columns

\* number of rows, and the sum of the per-row keyword sums of rows a..b
ScoreRows == Len(scoreIn.trends_df.rows)
ScoreSum(a, b) == SumSeq(SubSeq(RowSums(scoreIn.trends_df, ScoreKeywords), a, b))

\* truncation toward zero of num / den, den > 0
Trunc(num, den) == IF num >= 0 THEN num \div den ELSE 0 - ((0 - num) \div den)

\* the baseline window (all rows but the last 7) has rows, all of them 0
C13_ZeroBaseline ==
  /\ ScoreFrameOk
  /\ ScoreRows > 7
  /\ ScoreSum(1, ScoreRows - 7) = 0

\* C13: with a non-empty baseline window of average 0 the trend component
\* is currentAvg * 2 and the score int(trend * 0.7 + aux * 0.3); with
\* currentAvg = 30 the trend component is 60 and the score
\* int(60 * 0.7 + aux * 0.3).
C13_ZeroBaselineDoublesCurrent ==
  (Scored /\ C13_ZeroBaseline)
  => LET Sc == ScoreSum(ScoreRows - 6, ScoreRows)
         t == trend_score(scoreIn.trends_df, ScoreKeywords)
     IN  /\ 7 * t.n = 2 * Sc * t.d
         /\ scoreOut.score = Trunc(14 * Sc + 21 * scoreIn.social_score, 70)
         /\ Sc = 7 * 30
              => /\ t.n = 60 * t.d
                 /\ scoreOut.score = Trunc(420 + 3 * scoreIn.social_score, 10)

C13_Witness ==
  /\ Scored
  /\ C13_ZeroBaseline
  /\ ScoreSum(ScoreRows - 6, ScoreRows) = 7 * 30
  /\ scoreIn.social_score = 20
  /\ scoreOut.score = 48

\* C16: for a series of 1 to 7 rows the baseline average is the default 10,
\* the current window is the whole series and the trend component is
\* max(0, (currentAvg - 10) / 10 * 100).
C16_ShortSeriesUsesDefaultBaseline ==
  (Scored /\ ScoreFrameOk /\ ScoreRows <= 7)
  => LET S == ScoreSum(1, ScoreRows)
         b == baseline_avg(scoreIn.trends_df, ScoreKeywords)
         c == current_avg(scoreIn.trends_df, ScoreKeywords)
         t == trend_score(scoreIn.trends_df, ScoreKeywords)
         pct == 10 * (S - 10 * ScoreRows)
         clamped == IF pct > 0 THEN pct ELSE 0
     IN  /\ b.n = 10 * b.d
         /\ c.n * ScoreRows = S * c.d
         /\ t.n * ScoreRows = clamped * t.d
         /\ scoreOut.score =
              Trunc(7 * clamped + 3 * scoreIn.social_score * ScoreRows,
                    10 * ScoreRows)

C16_Witness ==
  /\ Scored
  /\ ScoreFrameOk
  /\ ScoreRows = 7
  /\ ScoreSum(1, 7) = 7 * 100
  /\ scoreIn.social_score = 5
  /\ scoreOut.score = 631

\* C17: a non-empty series that lacks the column of a configured keyword
\* makes the computation fail, and the result is (0, "Low", "Error in
\* calculation logic.").
C17_FailedComputationScoresZero ==
  ( /\ Scored
    /\ scoreIn.trends_df # None
    /\ Len(scoreIn.trends_df.rows) > 0
    /\ scoreIn.trends_df.columns # {}
    /\ ~ (Range(ScoreKeywords) \subseteq scoreIn.trends_df.columns) )
  => scoreOut = [ score |-> 0, level |-> "Low", action |-> ErrorAction ]

\* a rising series without the third keyword's column; the other three
\* columns alone would score above 0
C17_Witness ==
  /\ Scored
  /\ scoreIn.trends_df # None
  /\ Len(scoreIn.trends_df.rows) = 7
  /\ Cardinality(scoreIn.trends_df.columns) = 3
  /\ scoreIn.trends_df.rows[1][ScoreKeywords[1]] = 50
  /\ scoreIn.social_score = 50
  /\ scoreOut.action = ErrorAction

\* the average of the current window is not above the baseline average
C20_TrendNotAbove ==
  IF ScoreRows <= 7
  THEN ScoreSum(1, ScoreRows) <= 10 * ScoreRows
  ELSE ScoreSum(ScoreRows - 6, ScoreRows) * (ScoreRows - 7)
         <= ScoreSum(1, ScoreRows - 7) * 7

\* C20: with the auxiliary score in [5, 50] and the current average not
\* above the baseline average, the score is int(aux * 0.3), between 1 and
\* 15, and the level is Low.
C20_AuxiliaryAloneStaysLow ==
  ( /\ Scored
    /\ ScoreFrameOk
    /\ scoreIn.social_score \in get_social_chatter
    /\ C20_TrendNotAbove )
  => /\ scoreOut.score = (3 * scoreIn.social_score) \div 10
     /\ 1 <= scoreOut.score
     /\ scoreOut.score <= 15
     /\ scoreOut.level = "Low"
     /\ scoreOut.action = LowAction

C20_Witness ==
  /\ Scored
  /\ ScoreFrameOk
  /\ ScoreRows = MonthRows
  /\ ScoreSum(1, ScoreRows - 7) = (ScoreRows - 7) * 100
  /\ ScoreSum(ScoreRows - 6, ScoreRows) = 7 * 100
  /\ scoreIn.social_score = 50
  /\ scoreOut.score = 15
  /\ scoreOut.level = "Low"

(***************************************************************************)
(* Properties of overlapping fetches (specification SpecRace).              *)
(***************************************************************************)
\* both threads have finished fetches that overlapped after both had found
\* the entry missing or stale
C14_BothMissed ==
  /\ \A t \in Threads : threads[t].pc = "done" /\ threads[t].miss
  /\ raceLog.overlap

\* C14: two overlapping fetches that both miss both call the provider, and
\* once both have finished the cache entry is exactly the entry built by the
\* one that stored last: its timestamp, series and chart payload.
C14_LastWriterWins ==
  C14_BothMissed
  => /\ \A t \in Threads : threads[t].calls = 1
     /\ (\E t \in Threads : threads[t].stored)
          => /\ raceLog.lastStore \in Threads
             /\ threads[raceLog.lastStore].stored
             /\ RaceKey \in DOMAIN trends_cache
             /\ trends_cache[RaceKey] = threads[raceLog.lastStore].entry
             /\ trends_cache[RaceKey].data = threads[raceLog.lastStore].data
             /\ trends_cache[RaceKey].chart_data
                  = threads[raceLog.lastStore].chart_data

\* both stored; the entry built first (older timestamp) was stored last
C14_Witness ==
  /\ C14_BothMissed
  /\ \A t \in Threads : threads[t].stored
  /\ threads[1].entry.timestamp < threads[2].entry.timestamp
  /\ threads[1].entry.data # threads[2].entry.data
  /\ raceLog.lastStore = 1
  /\ trends_cache[RaceKey] = threads[1].entry

====
